---- MODULE Spec2Model ----
(***************************************************************************)
(* Model of src/util/thread.cc: the ThreadMgr registry (category maps,     *)
(* metric counters, one mutex) and the Thread start handshake              *)
(* (Thread::StartThread on the launcher, Thread::SuperviseThread on the    *)
(* child), together with the lifetime of the thread_manager singleton.     *)
(***************************************************************************)
EXTENDS Integers, FiniteSets, Sequences, TLC

\* ------------------------------------------------------------------ bounds

\* Number of Thread objects (each with its own launcher and native thread).
NumThreads == 2

\* The uint64 metric counters are kept modulo CounterMod instead of 2^64.
CounterMod == 4

\* Number of Thread objects started in the fair-scheduling specification.
NumLive == 1

\* Number of direct registry calls the registry-level harness may issue.
MaxCalls == 3

\* ------------------------------------------------------- program constants

THREAD_NOT_ASSIGNED == 0
THREAD_ASSIGNED == 1
THREAD_RUNNING == 2

\* Declared in util/thread.h; a value no thread ever reports.
UNINITIALISED_THREAD_ID == -2

\* syscall(SYS_gettid) returns -1 when it fails (line 301).
GettidFailed == -1

Threads == 1..NumThreads

\* The main control path, as a caller of the registry.
MainCaller == NumThreads + 1

Callers == 1..(NumThreads + 1)

\* name_ and category_ given to the Thread constructor.
NameOf(t) == IF t % 2 = 1 THEN "A" ELSE ""
CategoryOf(t) == IF t % 2 = 1 THEN "io" ELSE ""

\* The id the kernel gives thread t.
OsTid(t) == 100 + t

\* Values an uninitialized uint64 member may hold: zero, or anything else (the largest
\* value stands for it).
Uninitialized == {0, CounterMod - 1}

\* A caller's frame in a registry call: the arguments, what map::erase returned, the value
\* a metric callback returns, and for ThreadPathHandler the args map, categories_to_print,
\* the stringstream *output, the number of GetThreadStats calls and whether only the
\* return is left.
NoCall == [op |-> "none", id |-> 0, name |-> <<"", 0>>, category |-> "", tid |-> 0,
           erased |-> 0, result |-> 0, args |-> <<>>, to_print |-> <<>>, output |-> <<>>,
           stats_calls |-> 0, done |-> FALSE]

VARIABLES
  thread_manager,    \* the global shared_ptr: "null", "set" or "dead" (destroyed at exit)
  use_count,         \* number of shared_ptr handles to the ThreadMgr
  mgr,               \* the ThreadMgr object: "none", "alive" or "destroyed"
  lock_,             \* set of callers holding ThreadMgr::lock_
  thread_categories_,\* category name -> (thread identity -> descriptor)
  metrics_enabled_,
  total_threads_metric_,
  current_num_threads_metric_,
  call,              \* call[c]: the registry call caller c is executing
  lpc,               \* lpc[t]: where t's launcher is in StartThread
  cpc,               \* cpc[t]: where t's child is in SuperviseThread
  tid_,              \* Thread::tid_
  thread_,           \* Thread::thread_ holds the native handle
  c_p_tid,           \* StartThread's local c_p_tid
  p_c_assigned,      \* StartThread's local p_c_assigned
  system_tid,        \* SuperviseThread's local system_tid
  category_copy,     \* SuperviseThread's local category_copy
  name_copy,         \* SuperviseThread's local name_copy
  thread_mgr_ref,    \* SuperviseThread's local handle: "none", "valid", "null", "dangling"
  fatal,             \* "none", or why the process aborted
  late_access,       \* history: launcher-owned cells a child touched after publishing its id
  adds_counted,      \* history: AddThread calls that ran with metrics enabled
  calls_made         \* history: direct registry calls issued by the harness

registry == <<thread_categories_, metrics_enabled_, total_threads_metric_,
              current_num_threads_metric_>>
lifetime == <<thread_manager, use_count, mgr>>
launcher == <<lpc, tid_, thread_, c_p_tid, p_c_assigned>>
child    == <<cpc, system_tid, category_copy, name_copy, thread_mgr_ref>>
history  == <<late_access, adds_counted, calls_made>>
vars == <<registry, lifetime, lock_, call, launcher, child, fatal, history>>

\* ------------------------------------------------------------- map helpers

EmptyMap == [k \in {} |-> 0]

Put(m, k, v) == [x \in DOMAIN m \cup {k} |-> IF x = k THEN v ELSE m[x]]

Erase(m, k) == [x \in DOMAIN m \ {k} |-> m[x]]

\* thread_categories_[category][thread] = ThreadDescriptor(category, name, tid)
InsertDescriptor(cats, category, id, name, tid) ==
  LET old == IF category \in DOMAIN cats THEN cats[category] ELSE EmptyMap
  IN Put(cats, category, Put(old, id, [name |-> name, category |-> category, thread_id |-> tid]))

\* Mutant of EraseDescriptor: the erase is left out.
EraseDescriptor_Nothing(cats, category, id) == cats

\* category_it->second.erase(boost_id)
EraseDescriptor(cats, category, id) ==
  [cats EXCEPT ![category] = Erase(@, id)]

Inc(x) == (x + 1) % CounterMod

Dec(x) == (x + CounterMod - 1) % CounterMod

\* Number of identities present across all category maps.
NumRegistered ==
  LET RECURSIVE Sum(_)
      Sum(S) == IF S = {} THEN 0
                ELSE LET c == CHOOSE x \in S : TRUE
                     IN Cardinality(DOMAIN thread_categories_[c]) + Sum(S \ {c})
  IN Sum(DOMAIN thread_categories_)

\* Categories whose map holds identity id.
CategoriesOf(id) == {c \in DOMAIN thread_categories_ : id \in DOMAIN thread_categories_[c]}

Running == fatal = "none"

\* ------------------------------------------------------- registry operations

\* Mutant of AddThread_Enter: the lock_guard is left out, the caller does not wait for
\* lock_ to be free.
AddThread_Enter_NoLock(c, id, name, category, tid) ==
  /\ call[c].op = "none"
  /\ lock_' = lock_ \cup {c}
  /\ thread_categories_' = InsertDescriptor(thread_categories_, category, id, name, tid)
  /\ call' = [call EXCEPT ![c] = [NoCall EXCEPT !.op = "AddThread", !.id = id,
                                                 !.name = name, !.category = category,
                                                 !.tid = tid]]

\* ThreadMgr::AddThread, lines 158-159: take lock_, insert or overwrite the descriptor.
AddThread_Enter(c, id, name, category, tid) ==
  /\ lock_ = {}
  /\ call[c].op = "none"
  /\ lock_' = {c}
  /\ thread_categories_' = InsertDescriptor(thread_categories_, category, id, name, tid)
  /\ call' = [call EXCEPT ![c] = [NoCall EXCEPT !.op = "AddThread", !.id = id,
                                                 !.name = name, !.category = category,
                                                 !.tid = tid]]

\* Mutant of AddThread_Metrics: the counters are bumped without testing metrics_enabled_.
AddThread_Metrics_Always(c) ==
  /\ Running
  /\ call[c].op = "AddThread"
  /\ current_num_threads_metric_' = Inc(current_num_threads_metric_)
  /\ total_threads_metric_' = Inc(total_threads_metric_)
  /\ adds_counted' = adds_counted + 1
  /\ lock_' = lock_ \ {c}
  /\ call' = [call EXCEPT ![c] = NoCall]
  /\ UNCHANGED <<thread_categories_, metrics_enabled_, lifetime, launcher, child, fatal,
                 late_access, calls_made>>

\* ThreadMgr::AddThread, lines 160-164: bump both counters if metrics are enabled, unlock.
AddThread_Metrics(c) ==
  /\ Running
  /\ call[c].op = "AddThread"
  /\ IF metrics_enabled_
       THEN /\ current_num_threads_metric_' = Inc(current_num_threads_metric_)
            /\ total_threads_metric_' = Inc(total_threads_metric_)
            /\ adds_counted' = adds_counted + 1
       ELSE UNCHANGED <<current_num_threads_metric_, total_threads_metric_, adds_counted>>
  /\ lock_' = lock_ \ {c}
  /\ call' = [call EXCEPT ![c] = NoCall]
  /\ UNCHANGED <<thread_categories_, metrics_enabled_, lifetime, launcher, child, fatal,
                 late_access, calls_made>>

\* What map::erase(key) returns: the number of entries removed.
EraseCount(cats, category, id) == IF id \in DOMAIN cats[category] THEN 1 ELSE 0

\* ThreadMgr::RemoveThread, lines 167-170: take lock_, find the category (DCHECK), erase.
RemoveThread_Enter(c, id, category) ==
  /\ lock_ = {}
  /\ call[c].op = "none"
  /\ lock_' = {c}
  /\ IF category \in DOMAIN thread_categories_
       THEN /\ thread_categories_' = EraseDescriptor(thread_categories_, category, id)
            /\ call' = [call EXCEPT ![c] =
                          [NoCall EXCEPT !.op = "RemoveThread", !.id = id,
                                         !.category = category,
                                         !.erased = EraseCount(thread_categories_,
                                                               category, id)]]
            /\ UNCHANGED fatal
       ELSE /\ fatal' = "DCHECK(category_it != thread_categories_.end())"
            /\ call' = [call EXCEPT ![c] =
                          [NoCall EXCEPT !.op = "RemoveThread", !.id = id,
                                         !.category = category]]
            /\ UNCHANGED thread_categories_

\* ThreadMgr::RemoveThread, lines 171-174: decrement the alive counter if metrics are
\* enabled, unlock.
RemoveThread_Metrics(c) ==
  /\ Running
  /\ call[c].op = "RemoveThread"
  /\ IF metrics_enabled_
       THEN current_num_threads_metric_' = Dec(current_num_threads_metric_)
       ELSE UNCHANGED current_num_threads_metric_
  /\ lock_' = lock_ \ {c}
  /\ call' = [call EXCEPT ![c] = NoCall]
  /\ UNCHANGED <<thread_categories_, metrics_enabled_, total_threads_metric_, lifetime,
                 launcher, child, fatal, history>>

\* ThreadMgr::StartInstrumentation, lines 130-131: take lock_, enable metrics.
StartInstrumentation_Enter ==
  /\ Running
  /\ thread_manager = "set"
  /\ lock_ = {}
  /\ call[MainCaller].op = "none"
  /\ lock_' = {MainCaller}
  /\ metrics_enabled_' = TRUE
  /\ call' = [call EXCEPT ![MainCaller] = [NoCall EXCEPT !.op = "StartInstrumentation"]]
  /\ UNCHANGED <<thread_categories_, total_threads_metric_, current_num_threads_metric_,
                 lifetime, launcher, child, fatal, history>>

\* ThreadMgr::StartInstrumentation, lines 135-144: register the gauges and the page
\* handler, unlock.
StartInstrumentation_Exit ==
  /\ Running
  /\ call[MainCaller].op = "StartInstrumentation"
  /\ lock_' = lock_ \ {MainCaller}
  /\ call' = [call EXCEPT ![MainCaller] = NoCall]
  /\ UNCHANGED <<registry, lifetime, launcher, child, fatal, history>>

\* ThreadMgr::ReadNumTotalThreads, lines 147-148: take lock_, load the counter. The
\* gauge calling it exists once StartInstrumentation has registered it (line 135).
ReadNumTotalThreads_Enter(c) ==
  /\ Running
  /\ metrics_enabled_
  /\ lock_ = {}
  /\ call[c].op = "none"
  /\ lock_' = {c}
  /\ call' = [call EXCEPT ![c] = [NoCall EXCEPT !.op = "ReadNumTotalThreads",
                                                 !.result = total_threads_metric_]]
  /\ UNCHANGED <<registry, lifetime, launcher, child, fatal, history>>

\* ThreadMgr::ReadNumCurrentThreads, lines 152-153: take lock_, load the counter.
ReadNumCurrentThreads_Enter(c) ==
  /\ Running
  /\ metrics_enabled_
  /\ lock_ = {}
  /\ call[c].op = "none"
  /\ lock_' = {c}
  /\ call' = [call EXCEPT ![c] = [NoCall EXCEPT !.op = "ReadNumCurrentThreads",
                                                 !.result = current_num_threads_metric_]]
  /\ UNCHANGED <<registry, lifetime, launcher, child, fatal, history>>

\* Lines 149 and 154: the metric callback returns its value and releases lock_.
ReadNum_Exit(c) ==
  /\ Running
  /\ call[c].op \in {"ReadNumTotalThreads", "ReadNumCurrentThreads"}
  /\ lock_' = lock_ \ {c}
  /\ call' = [call EXCEPT ![c] = NoCall]
  /\ UNCHANGED <<registry, lifetime, launcher, child, fatal, history>>

\* ------------------------------------------------------ the /threadz page

\* EscapeForHtmlToString (util/url-coding.h) replaces & < > by their entities; given here
\* on the names the callers use.
EscapeForHtmlToString(s) ==
  CASE s = "a&b" -> "a&amp;b"
    [] s = "a&amp;b" -> "a&amp;amp;b"
    [] OTHER -> s

\* UrlEncode (util/url-coding.h) percent-encodes what is not alphanumeric; given here on
\* the names the callers use.
UrlEncode(s) ==
  CASE s = "a&b" -> "a%26b"
    [] s = "a&amp;b" -> "a%26amp%3Bb"
    [] OTHER -> s

\* The elements of S as a sequence: the order in which BOOST_FOREACH visits the keys of
\* a std::map (some fixed order).
RECURSIVE Visit(_)
Visit(S) ==
  IF S = {} THEN <<>>
  ELSE LET x == CHOOSE y \in S : TRUE IN <<x>> \o Visit(S \ {x})

\* ThreadMgr::PrintThreadCategoryRows, lines 178-189: one GetThreadStats call and one row
\* per thread of the category; failing are the threads whose lookup returns an error,
\* their row carries the ThreadStats as declared at line 179.
PrintThreadCategoryRows(category, failing) ==
  LET ids == Visit(DOMAIN category)
  IN [i \in 1..Len(ids) |->
        <<"tr", category[ids[i]].name, IF ids[i] \in failing THEN "no stats" ELSE "stats">>]

\* Lines 221-223: PrintThreadCategoryRows for each of categories_to_print in turn.
RECURSIVE PrintCategories(_, _)
PrintCategories(to_print, failing) ==
  IF to_print = <<>> THEN <<>>
  ELSE PrintThreadCategoryRows(thread_categories_[Head(to_print)], failing)
         \o PrintCategories(Tail(to_print), failing)

\* Number of GetThreadStats calls (line 180) made while printing to_print.
RECURSIVE StatsCalls(_)
StatsCalls(to_print) ==
  IF to_print = <<>> THEN 0
  ELSE Cardinality(DOMAIN thread_categories_[Head(to_print)]) + StatsCalls(Tail(to_print))

\* Lines 226-237: the listing of all categories, with the alive count if metrics are on.
GroupListing ==
  LET cats == Visit(DOMAIN thread_categories_)
  IN <<<<"h2", "Thread Groups">>>>
       \o (IF metrics_enabled_ THEN <<<<"running", current_num_threads_metric_>>>> ELSE <<>>)
       \o <<<<"a", "all", "All Threads">>>>
       \o [i \in 1..Len(cats) |->
             <<"a", UrlEncode(cats[i]), cats[i],
               Cardinality(DOMAIN thread_categories_[cats[i]])>>]

\* ThreadMgr::ThreadPathHandler, lines 194-214 and 225-238: take lock_, read the group
\* argument, then either list the categories, report an unknown group, or select the
\* categories to print. The handler exists once StartInstrumentation has registered it
\* (line 142).
ThreadPathHandler_Enter(c, args) ==
  /\ Running
  /\ metrics_enabled_
  /\ lock_ = {}
  /\ call[c].op = "none"
  /\ lock_' = {c}
  /\ LET frame == [NoCall EXCEPT !.op = "ThreadPathHandler", !.args = args]
         group == EscapeForHtmlToString(args["group"])
         head  == <<<<"h2", group>>>>
     IN call' = [call EXCEPT ![c] =
          IF "group" \notin DOMAIN args
            THEN [frame EXCEPT !.output = GroupListing, !.done = TRUE]
          ELSE IF group = "all"
            THEN [frame EXCEPT !.to_print = Visit(DOMAIN thread_categories_),
                               !.output = head \o <<<<"h3", "All Threads : ">>>>]
          ELSE IF group \notin DOMAIN thread_categories_
            THEN [frame EXCEPT !.output = head \o <<<<"not found", group>>>>,
                               !.done = TRUE]
          ELSE [frame EXCEPT !.to_print = <<group>>,
                             !.output = head \o
                               <<<<"h3", group,
                                   Cardinality(DOMAIN thread_categories_[group])>>>>]]
  /\ UNCHANGED <<registry, lifetime, launcher, child, fatal, history>>

\* ThreadMgr::ThreadPathHandler, lines 216-224: the table, one PrintThreadCategoryRows per
\* selected category. GetThreadStats fails for any set of threads.
ThreadPathHandler_Table(c) ==
  /\ Running
  /\ call[c].op = "ThreadPathHandler"
  /\ ~call[c].done
  /\ \E failing \in SUBSET Threads :
       call' = [call EXCEPT
                  ![c].output = @ \o <<<<"table">>>>
                                  \o PrintCategories(call[c].to_print, failing)
                                  \o <<<<"/table">>>>,
                  ![c].stats_calls = StatsCalls(call[c].to_print),
                  ![c].done = TRUE]
  /\ UNCHANGED <<registry, lifetime, lock_, launcher, child, fatal, history>>

\* ThreadMgr::ThreadPathHandler, lines 204 and 239: return, releasing lock_.
ThreadPathHandler_Exit(c) ==
  /\ Running
  /\ call[c].op = "ThreadPathHandler"
  /\ call[c].done
  /\ lock_' = lock_ \ {c}
  /\ call' = [call EXCEPT ![c] = NoCall]
  /\ UNCHANGED <<registry, lifetime, launcher, child, fatal, history>>

\* ------------------------------------------------------ singleton lifetime

\* InitThreading, lines 242-246. The constructor (line 60) sets only metrics_enabled_.
InitThreading ==
  /\ Running
  /\ thread_manager = "null"
  /\ thread_manager' = "set"
  /\ mgr' = "alive"
  /\ use_count' = 1
  /\ metrics_enabled_' = FALSE
  /\ thread_categories_' = EmptyMap
  /\ total_threads_metric_' \in Uninitialized
  /\ current_num_threads_metric_' \in Uninitialized
  /\ UNCHANGED <<lock_, call, launcher, child, fatal, history>>

\* Dropping one shared_ptr handle: the last one destroys the ThreadMgr.
Release(n) == IF n - 1 = 0 THEN "destroyed" ELSE "alive"

\* The end of the main thread destroys the global thread_manager (lines 49-54).
MainExit ==
  /\ Running
  /\ thread_manager = "set"
  /\ call[MainCaller].op = "none"
  /\ thread_manager' = "dead"
  /\ use_count' = use_count - 1
  /\ mgr' = Release(use_count)
  /\ UNCHANGED <<registry, lock_, call, launcher, child, fatal, history>>

\* ------------------------------------------------------------- the launcher

\* Cells of the launcher the child reaches through its reference parameters.
Touch(t, cells) ==
  IF c_p_tid[t] # UNINITIALISED_THREAD_ID
    THEN late_access \cup {<<t, x>> : x \in cells}
    ELSE late_access

\* Outcomes of reading thread_manager.get() != NULL.
ManagerSeenSet == IF thread_manager = "dead" THEN {TRUE, FALSE} ELSE {thread_manager = "set"}

\* Mutant of StartThread: the two DCHECKs are left out.
StartThread_Unchecked(t) ==
  /\ Running
  /\ lpc[t] \in {"created", "returned"}
  /\ c_p_tid' = [c_p_tid EXCEPT ![t] = UNINITIALISED_THREAD_ID]
  /\ p_c_assigned' = [p_c_assigned EXCEPT ![t] = THREAD_NOT_ASSIGNED]
  /\ cpc' = [cpc EXCEPT ![t] = "c300"]
  /\ lpc' = [lpc EXCEPT ![t] = "L281"]
  /\ UNCHANGED <<registry, lifetime, lock_, call, tid_, thread_, system_tid, category_copy,
                 name_copy, thread_mgr_ref, fatal, history>>

\* Thread::StartThread, lines 274-283, both DCHECKs passing: allocate the two handshake
\* words and create the native thread running SuperviseThread.
StartThread(t) ==
  /\ Running
  /\ lpc[t] \in {"created", "returned"}
  /\ TRUE \in ManagerSeenSet
  /\ tid_[t] = UNINITIALISED_THREAD_ID
  /\ c_p_tid' = [c_p_tid EXCEPT ![t] = UNINITIALISED_THREAD_ID]
  /\ p_c_assigned' = [p_c_assigned EXCEPT ![t] = THREAD_NOT_ASSIGNED]
  /\ cpc' = [cpc EXCEPT ![t] = "c300"]
  /\ lpc' = [lpc EXCEPT ![t] = "L281"]
  /\ UNCHANGED <<registry, lifetime, lock_, call, tid_, thread_, system_tid, category_copy,
                 name_copy, thread_mgr_ref, fatal, history>>

\* Thread::StartThread, lines 274-276, a DCHECK failing.
StartThread_Fatal(t) ==
  /\ Running
  /\ lpc[t] \in {"created", "returned"}
  /\ \/ FALSE \in ManagerSeenSet
     \/ tid_[t] # UNINITIALISED_THREAD_ID
  /\ fatal' = IF FALSE \in ManagerSeenSet
                THEN "Thread created before InitThreading called"
                ELSE "StartThread called twice"
  /\ UNCHANGED <<registry, lifetime, lock_, call, launcher, child, history>>

\* Mutant of StoreHandle: THREAD_ASSIGNED is published at once and the handle is not
\* stored in thread_.
StoreHandle_AssignFirst(t) ==
  /\ Running
  /\ lpc[t] = "L281"
  /\ p_c_assigned' = [p_c_assigned EXCEPT ![t] = THREAD_ASSIGNED]
  /\ lpc' = [lpc EXCEPT ![t] = "L286"]
  /\ UNCHANGED <<registry, lifetime, lock_, call, tid_, thread_, c_p_tid, child, fatal,
                 history>>

\* Thread::StartThread, line 281: thread_.reset(...) stores the native handle.
StoreHandle(t) ==
  /\ Running
  /\ lpc[t] = "L281"
  /\ thread_' = [thread_ EXCEPT ![t] = TRUE]
  /\ lpc' = [lpc EXCEPT ![t] = "L286"]
  /\ UNCHANGED <<registry, lifetime, lock_, call, tid_, c_p_tid, p_c_assigned, child, fatal,
                 history>>

\* Thread::StartThread, line 286: Release_Store(&p_c_assigned, THREAD_ASSIGNED).
SignalAssigned(t) ==
  /\ Running
  /\ lpc[t] = "L286"
  /\ p_c_assigned' = [p_c_assigned EXCEPT ![t] = THREAD_ASSIGNED]
  /\ lpc' = [lpc EXCEPT ![t] = "L290"]
  /\ UNCHANGED <<registry, lifetime, lock_, call, tid_, thread_, c_p_tid, child, fatal,
                 history>>

\* Mutant of WaitForTid: c_p_tid is read without waiting for the child to store it.
WaitForTid_NoSpin(t) ==
  /\ Running
  /\ lpc[t] = "L290"
  /\ tid_' = [tid_ EXCEPT ![t] = c_p_tid[t]]
  /\ lpc' = [lpc EXCEPT ![t] = "returned"]
  /\ UNCHANGED <<registry, lifetime, lock_, call, thread_, c_p_tid, p_c_assigned, child,
                 fatal, history>>

\* Thread::StartThread, lines 289-296: spin until the child has stored its tid, keep it
\* in tid_ and return.
WaitForTid(t) ==
  /\ Running
  /\ lpc[t] = "L290"
  /\ c_p_tid[t] # UNINITIALISED_THREAD_ID
  /\ tid_' = [tid_ EXCEPT ![t] = c_p_tid[t]]
  /\ lpc' = [lpc EXCEPT ![t] = "returned"]
  /\ UNCHANGED <<registry, lifetime, lock_, call, thread_, c_p_tid, p_c_assigned, child,
                 fatal, history>>

\* ---------------------------------------------------------------- the child

\* Outcomes of copying the global thread_manager into thread_mgr_ref (line 307). Once the
\* global has been destroyed the copy reads a dead shared_ptr.
HandleOutcomes ==
  IF thread_manager = "set" THEN {"valid"}
  ELSE IF thread_manager = "null" THEN {"null"}
  ELSE IF mgr = "alive" THEN {"valid", "null"}
  ELSE {"dangling", "null"}

\* Outcomes of syscall(SYS_gettid), line 300.
GettidOutcomes(t) == {OsTid(t), GettidFailed}

\* Thread::SuperviseThread, lines 300-312: resolve the tid, copy category and name, take
\* a handle to the ThreadMgr, default the category.
Supervise_Prepare(t) ==
  /\ Running
  /\ cpc[t] = "c300"
  /\ \E id \in GettidOutcomes(t) :
       /\ system_tid' = [system_tid EXCEPT ![t] = id]
       /\ name_copy' = [name_copy EXCEPT
                          ![t] = <<IF NameOf(t) = "" THEN "thread" ELSE NameOf(t), id>>]
  /\ category_copy' = [category_copy EXCEPT
                         ![t] = IF CategoryOf(t) = "" THEN "no-category" ELSE CategoryOf(t)]
  /\ \E h \in HandleOutcomes :
       /\ thread_mgr_ref' = [thread_mgr_ref EXCEPT ![t] = h]
       /\ use_count' = IF h = "valid" THEN use_count + 1 ELSE use_count
  /\ late_access' = Touch(t, {"name", "category"})
  /\ cpc' = [cpc EXCEPT ![t] = "c316"]
  /\ UNCHANGED <<registry, thread_manager, mgr, lock_, call, launcher, fatal, adds_counted,
                 calls_made>>

\* Mutant of Supervise_AddThread: the registration is not part of the handshake, the
\* child goes straight to its wait.
Supervise_AddThread_Skipped(t) ==
  /\ Running
  /\ cpc[t] = "c316"
  /\ cpc' = [cpc EXCEPT ![t] = "c319"]
  /\ UNCHANGED <<registry, lifetime, lock_, call, launcher, system_tid, category_copy,
                 name_copy, thread_mgr_ref, fatal, history>>

\* Thread::SuperviseThread, line 316: thread_mgr_ref->AddThread(get_id(), name_copy,
\* category_copy, system_tid).
Supervise_AddThread(t) ==
  /\ Running
  /\ cpc[t] = "c316"
  /\ IF thread_mgr_ref[t] = "valid"
       THEN /\ AddThread_Enter(t, t, name_copy[t], category_copy[t], system_tid[t])
            /\ cpc' = [cpc EXCEPT ![t] = "c319"]
            /\ UNCHANGED fatal
       ELSE /\ fatal' = "AddThread called through a handle to no live ThreadMgr"
            /\ UNCHANGED <<thread_categories_, lock_, call, cpc>>
  /\ UNCHANGED <<metrics_enabled_, total_threads_metric_, current_num_threads_metric_,
                 lifetime, launcher, system_tid, category_copy, name_copy, thread_mgr_ref,
                 history>>

\* Mutant of SpinWait_Load: SpinWait is given THREAD_NOT_ASSIGNED as the value to wait for.
SpinWait_Load_WrongFrom(t) ==
  /\ Running
  /\ cpc[t] = "c319"
  /\ call[t].op = "none"
  /\ p_c_assigned[t] = THREAD_NOT_ASSIGNED
  /\ late_access' = Touch(t, {"p_c_assigned"})
  /\ cpc' = [cpc EXCEPT ![t] = "c319s"]
  /\ UNCHANGED <<registry, lifetime, lock_, call, launcher, system_tid, category_copy,
                 name_copy, thread_mgr_ref, fatal, adds_counted, calls_made>>

\* Mutant of SpinWait_Load: the child goes on without having seen THREAD_ASSIGNED.
SpinWait_Load_NoWait(t) ==
  /\ Running
  /\ cpc[t] = "c319"
  /\ call[t].op = "none"
  /\ late_access' = Touch(t, {"p_c_assigned"})
  /\ cpc' = [cpc EXCEPT ![t] = "c319s"]
  /\ UNCHANGED <<registry, lifetime, lock_, call, launcher, system_tid, category_copy,
                 name_copy, thread_mgr_ref, fatal, adds_counted, calls_made>>

\* SpinWait, lines 262-264: spin until *x == from.
SpinWait_Load(t) ==
  /\ Running
  /\ cpc[t] = "c319"
  /\ call[t].op = "none"
  /\ p_c_assigned[t] = THREAD_ASSIGNED
  /\ late_access' = Touch(t, {"p_c_assigned"})
  /\ cpc' = [cpc EXCEPT ![t] = "c319s"]
  /\ UNCHANGED <<registry, lifetime, lock_, call, launcher, system_tid, category_copy,
                 name_copy, thread_mgr_ref, fatal, adds_counted, calls_made>>

\* SpinWait, line 270: Release_Store(x, to).
SpinWait_Store(t) ==
  /\ Running
  /\ cpc[t] = "c319s"
  /\ p_c_assigned' = [p_c_assigned EXCEPT ![t] = THREAD_RUNNING]
  /\ late_access' = Touch(t, {"p_c_assigned"})
  /\ cpc' = [cpc EXCEPT ![t] = "c323"]
  /\ UNCHANGED <<registry, lifetime, lock_, call, lpc, tid_, thread_, c_p_tid, system_tid,
                 category_copy, name_copy, thread_mgr_ref, fatal, adds_counted, calls_made>>

\* Mutant of Supervise_ReportTid: a child whose gettid failed gives up instead of
\* reporting.
Supervise_ReportTid_OnlyResolved(t) ==
  /\ Running
  /\ cpc[t] = "c323"
  /\ system_tid[t] # GettidFailed
  /\ c_p_tid' = [c_p_tid EXCEPT ![t] = system_tid[t]]
  /\ late_access' = Touch(t, {"c_p_tid"})
  /\ cpc' = [cpc EXCEPT ![t] = "c329"]
  /\ UNCHANGED <<registry, lifetime, lock_, call, lpc, tid_, thread_, p_c_assigned,
                 system_tid, category_copy, name_copy, thread_mgr_ref, fatal, adds_counted,
                 calls_made>>

\* Thread::SuperviseThread, line 323: Release_Store(c_p_tid, system_tid).
Supervise_ReportTid(t) ==
  /\ Running
  /\ cpc[t] = "c323"
  /\ c_p_tid' = [c_p_tid EXCEPT ![t] = system_tid[t]]
  /\ late_access' = Touch(t, {"c_p_tid"})
  /\ cpc' = [cpc EXCEPT ![t] = "c329"]
  /\ UNCHANGED <<registry, lifetime, lock_, call, lpc, tid_, thread_, p_c_assigned,
                 system_tid, category_copy, name_copy, thread_mgr_ref, fatal, adds_counted,
                 calls_made>>

\* Thread::SuperviseThread, line 329: functor(), a work function that returns at once.
Supervise_Functor(t) ==
  /\ Running
  /\ cpc[t] = "c329"
  /\ cpc' = [cpc EXCEPT ![t] = "c330"]
  /\ UNCHANGED <<registry, lifetime, lock_, call, launcher, system_tid, category_copy,
                 name_copy, thread_mgr_ref, fatal, history>>

\* Mutant of Supervise_RemoveThread: the category is passed as the constructor got it,
\* without the "no-category" default.
Supervise_RemoveThread_RawCategory(t) ==
  /\ Running
  /\ cpc[t] = "c330"
  /\ RemoveThread_Enter(t, t, CategoryOf(t))
  /\ cpc' = [cpc EXCEPT ![t] = "c331"]
  /\ UNCHANGED <<metrics_enabled_, total_threads_metric_, current_num_threads_metric_,
                 lifetime, launcher, system_tid, category_copy, name_copy, thread_mgr_ref,
                 history>>

\* Mutant of Supervise_RemoveThread: the category is read through the reference
\* parameter instead of category_copy.
Supervise_RemoveThread_ByReference(t) ==
  /\ Running
  /\ cpc[t] = "c330"
  /\ RemoveThread_Enter(t, t, IF CategoryOf(t) = "" THEN "no-category" ELSE CategoryOf(t))
  /\ late_access' = Touch(t, {"category"})
  /\ cpc' = [cpc EXCEPT ![t] = "c331"]
  /\ UNCHANGED <<metrics_enabled_, total_threads_metric_, current_num_threads_metric_,
                 lifetime, launcher, system_tid, category_copy, name_copy, thread_mgr_ref,
                 adds_counted, calls_made>>

\* Thread::SuperviseThread, line 330: thread_mgr_ref->RemoveThread(get_id(), category_copy).
Supervise_RemoveThread(t) ==
  /\ Running
  /\ cpc[t] = "c330"
  /\ RemoveThread_Enter(t, t, category_copy[t])
  /\ cpc' = [cpc EXCEPT ![t] = "c331"]
  /\ UNCHANGED <<metrics_enabled_, total_threads_metric_, current_num_threads_metric_,
                 lifetime, launcher, system_tid, category_copy, name_copy, thread_mgr_ref,
                 history>>

\* Thread::SuperviseThread, line 331: the locals go out of scope, thread_mgr_ref last.
Supervise_Return(t) ==
  /\ Running
  /\ cpc[t] = "c331"
  /\ call[t].op = "none"
  /\ thread_mgr_ref' = [thread_mgr_ref EXCEPT ![t] = "none"]
  /\ use_count' = use_count - 1
  /\ mgr' = Release(use_count)
  /\ cpc' = [cpc EXCEPT ![t] = "done"]
  /\ UNCHANGED <<registry, thread_manager, lock_, call, launcher, system_tid, category_copy,
                 name_copy, fatal, history>>

\* ------------------------------------------------------------ the program

Init ==
  /\ thread_manager = "null"
  /\ use_count = 0
  /\ mgr = "none"
  /\ lock_ = {}
  /\ thread_categories_ = EmptyMap
  /\ metrics_enabled_ = FALSE
  /\ total_threads_metric_ = 0
  /\ current_num_threads_metric_ = 0
  /\ call = [c \in Callers |-> NoCall]
  /\ lpc = [t \in Threads |-> "created"]
  /\ cpc = [t \in Threads |-> "none"]
  /\ tid_ = [t \in Threads |-> UNINITIALISED_THREAD_ID]
  /\ thread_ = [t \in Threads |-> FALSE]
  /\ c_p_tid = [t \in Threads |-> UNINITIALISED_THREAD_ID]
  /\ p_c_assigned = [t \in Threads |-> THREAD_NOT_ASSIGNED]
  /\ system_tid = [t \in Threads |-> 0]
  /\ category_copy = [t \in Threads |-> ""]
  /\ name_copy = [t \in Threads |-> <<"", 0>>]
  /\ thread_mgr_ref = [t \in Threads |-> "none"]
  /\ fatal = "none"
  /\ late_access = {}
  /\ adds_counted = 0
  /\ calls_made = 0

Next ==
  \/ InitThreading
  \/ StartInstrumentation_Enter
  \/ StartInstrumentation_Exit
  \/ MainExit
  \/ \E t \in Threads : StartThread(t)
  \/ \E t \in Threads : StartThread_Fatal(t)
  \/ \E t \in Threads : StoreHandle(t)
  \/ \E t \in Threads : SignalAssigned(t)
  \/ \E t \in Threads : WaitForTid(t)
  \/ \E t \in Threads : Supervise_Prepare(t)
  \/ \E t \in Threads : Supervise_AddThread(t)
  \/ \E t \in Threads : AddThread_Metrics(t)
  \/ \E t \in Threads : SpinWait_Load(t)
  \/ \E t \in Threads : SpinWait_Store(t)
  \/ \E t \in Threads : Supervise_ReportTid(t)
  \/ \E t \in Threads : Supervise_Functor(t)
  \/ \E t \in Threads : Supervise_RemoveThread(t)
  \/ \E t \in Threads : RemoveThread_Metrics(t)
  \/ \E t \in Threads : Supervise_Return(t)

Spec == Init /\ [][Next]_vars

\* ------------------------------------------- the registry driven directly

\* Categories the direct callers name.
HarnessCategories == {"io", "a&b", "a&amp;b"}

\* Values of the group argument of a /threadz request.
HarnessGroups == {"all", "io", "a&b", "nonexistent"}

\* Argument maps of a /threadz request: no group argument, or one.
HarnessArgs == {EmptyMap} \cup {[group |-> g] : g \in HarnessGroups}

\* The registry as InitThreading leaves it, no Thread started.
InitRegistry ==
  /\ thread_manager = "set"
  /\ use_count = 1
  /\ mgr = "alive"
  /\ lock_ = {}
  /\ thread_categories_ = EmptyMap
  /\ metrics_enabled_ = FALSE
  /\ total_threads_metric_ \in Uninitialized
  /\ current_num_threads_metric_ \in Uninitialized
  /\ call = [c \in Callers |-> NoCall]
  /\ lpc = [t \in Threads |-> "created"]
  /\ cpc = [t \in Threads |-> "none"]
  /\ tid_ = [t \in Threads |-> UNINITIALISED_THREAD_ID]
  /\ thread_ = [t \in Threads |-> FALSE]
  /\ c_p_tid = [t \in Threads |-> UNINITIALISED_THREAD_ID]
  /\ p_c_assigned = [t \in Threads |-> THREAD_NOT_ASSIGNED]
  /\ system_tid = [t \in Threads |-> 0]
  /\ category_copy = [t \in Threads |-> ""]
  /\ name_copy = [t \in Threads |-> <<"", 0>>]
  /\ thread_mgr_ref = [t \in Threads |-> "none"]
  /\ fatal = "none"
  /\ late_access = {}
  /\ adds_counted = 0
  /\ calls_made = 0

\* A caller invokes ThreadMgr::AddThread(id, name, category, tid).
Call_AddThread(c, id, category) ==
  /\ Running
  /\ calls_made < MaxCalls
  /\ AddThread_Enter(c, id, <<"thread", OsTid(id)>>, category, OsTid(id))
  /\ calls_made' = calls_made + 1
  /\ UNCHANGED <<metrics_enabled_, total_threads_metric_, current_num_threads_metric_,
                 lifetime, launcher, child, fatal, late_access, adds_counted>>

\* A caller invokes ThreadMgr::RemoveThread(id, category).
Call_RemoveThread(c, id, category) ==
  /\ Running
  /\ calls_made < MaxCalls
  /\ RemoveThread_Enter(c, id, category)
  /\ calls_made' = calls_made + 1
  /\ UNCHANGED <<metrics_enabled_, total_threads_metric_, current_num_threads_metric_,
                 lifetime, launcher, child, late_access, adds_counted>>

NextRegistry ==
  \/ StartInstrumentation_Enter
  \/ StartInstrumentation_Exit
  \/ \E c \in Threads, id \in Threads, category \in HarnessCategories :
       Call_AddThread(c, id, category)
  \/ \E c \in Threads : AddThread_Metrics(c)
  \/ \E c \in Threads, id \in Threads, category \in HarnessCategories :
       Call_RemoveThread(c, id, category)
  \/ \E c \in Threads : RemoveThread_Metrics(c)
  \/ \E c \in Callers : ReadNumTotalThreads_Enter(c)
  \/ \E c \in Callers : ReadNumCurrentThreads_Enter(c)
  \/ \E c \in Callers : ReadNum_Exit(c)
  \/ \E c \in Callers, args \in HarnessArgs : ThreadPathHandler_Enter(c, args)
  \/ \E c \in Callers : ThreadPathHandler_Table(c)
  \/ \E c \in Callers : ThreadPathHandler_Exit(c)

SpecRegistry == InitRegistry /\ [][NextRegistry]_vars

\* ------------------------------------- the program under fair scheduling

\* The process keeps running (the main thread does not end) and callers keep the
\* contract of StartThread; the first NumLive Thread objects are started.
NextLive ==
  \/ InitThreading
  \/ StartInstrumentation_Enter
  \/ StartInstrumentation_Exit
  \/ \E t \in 1..NumLive : StartThread(t)
  \/ \E t \in Threads : StoreHandle(t)
  \/ \E t \in Threads : SignalAssigned(t)
  \/ \E t \in Threads : WaitForTid(t)
  \/ \E t \in Threads : Supervise_Prepare(t)
  \/ \E t \in Threads : Supervise_AddThread(t)
  \/ \E t \in Threads : AddThread_Metrics(t)
  \/ \E t \in Threads : SpinWait_Load(t)
  \/ \E t \in Threads : SpinWait_Store(t)
  \/ \E t \in Threads : Supervise_ReportTid(t)
  \/ \E t \in Threads : Supervise_Functor(t)
  \/ \E t \in Threads : Supervise_RemoveThread(t)
  \/ \E t \in Threads : RemoveThread_Metrics(t)
  \/ \E t \in Threads : Supervise_Return(t)

\* Every native thread keeps being scheduled, and a thread waiting for lock_ gets it.
Fairness ==
  /\ WF_vars(StartInstrumentation_Exit)
  /\ \A t \in Threads :
       /\ WF_vars(StoreHandle(t))
       /\ WF_vars(SignalAssigned(t))
       /\ WF_vars(WaitForTid(t))
       /\ WF_vars(Supervise_Prepare(t))
       /\ SF_vars(Supervise_AddThread(t))
       /\ WF_vars(AddThread_Metrics(t))
       /\ WF_vars(SpinWait_Load(t))
       /\ WF_vars(SpinWait_Store(t))
       /\ WF_vars(Supervise_ReportTid(t))
       /\ WF_vars(Supervise_Functor(t))
       /\ SF_vars(Supervise_RemoveThread(t))
       /\ WF_vars(RemoveThread_Metrics(t))
       /\ WF_vars(Supervise_Return(t))

SpecLive == Init /\ [][NextLive]_vars /\ Fairness

\* ------------------------------------------------------------------ claims

\* Steps of SuperviseThread that read or write memory owned by the launcher.
TouchingSteps == {"c300", "c319", "c319s", "c323"}

\* Positions of the child after functor() has been invoked.
AfterFunctor == {"c330", "c331", "done"}

\* Positions of the child while its descriptor is in the registry.
Registered == {"c319", "c319s", "c323", "c329", "c330"}

\* C1: once the child has published its tid it never again touches the launcher's
\* handshake words or the by-reference name and category; after StartThread has
\* returned the child is at no step that touches them.
C1_NoAccessAfterReport ==
  /\ late_access = {}
  /\ \A t \in Threads : lpc[t] = "returned" => cpc[t] \notin TouchingSteps

\* C1 witness: a launcher has returned and its child has run to the end.
C1_Witness == \E t \in Threads : lpc[t] = "returned" /\ cpc[t] = "done"

\* C2: when StartThread has returned, tid_ is not UNINITIALISED_THREAD_ID and is the
\* tid the child passed to AddThread, the one in its descriptor.
C2_TidIsChildTid ==
  \A t \in Threads :
    lpc[t] = "returned" =>
      /\ tid_[t] # UNINITIALISED_THREAD_ID
      /\ tid_[t] = system_tid[t]
      /\ \A c \in CategoriesOf(t) : thread_categories_[c][t].thread_id = tid_[t]

\* C2 witness: StartThread has returned while the child's descriptor is registered.
C2_Witness ==
  \E t \in Threads : lpc[t] = "returned" /\ CategoriesOf(t) # {} /\ cpc[t] \in Registered

AllDone == \A t \in Threads : cpc[t] = "done"

AllMapsEmpty == \A c \in DOMAIN thread_categories_ : DOMAIN thread_categories_[c] = {}

NoDuplicateIdentity == \A id \in Threads : Cardinality(CategoriesOf(id)) <= 1

\* A step of some started thread, launcher or child.
ThreadStep ==
  \E t \in Threads :
    \/ StoreHandle(t) \/ SignalAssigned(t) \/ WaitForTid(t)
    \/ Supervise_Prepare(t) \/ Supervise_AddThread(t) \/ AddThread_Metrics(t)
    \/ SpinWait_Load(t) \/ SpinWait_Store(t) \/ Supervise_ReportTid(t)
    \/ Supervise_Functor(t) \/ Supervise_RemoveThread(t) \/ RemoveThread_Metrics(t)
    \/ Supervise_Return(t)

\* C4: with every thread registered while metrics were enabled, once all threads have
\* finished current_num_threads_metric_ is 0 and every category map is empty; a started
\* thread that has not finished can always take a step or waits only for lock_; no
\* identity is in two maps.
C4_AllFinishedLeavesNothing ==
  /\ (AllDone /\ adds_counted = NumThreads) =>
       (current_num_threads_metric_ = 0 /\ AllMapsEmpty)
  /\ (Running /\ thread_manager = "set" /\ lock_ = {}
        /\ \E t \in Threads : lpc[t] # "created" /\ ~(lpc[t] = "returned" /\ cpc[t] = "done"))
       => ENABLED ThreadStep
  /\ NoDuplicateIdentity

\* C5: while no registry operation is in progress, current_num_threads_metric_ is the
\* number of identities in the category maps.
C5_AliveCountsRegistered ==
  (mgr = "alive" /\ lock_ = {}) =>
    current_num_threads_metric_ = NumRegistered % CounterMod

\* C6: total_threads_metric_ is the number of AddThread calls completed since metrics
\* were enabled.
C6_TotalCountsAdds ==
  mgr = "alive" => total_threads_metric_ = adds_counted % CounterMod

\* The identity a RemoveThread call names is in no map of the category it names.
Absent(id, category) ==
  \/ category \notin DOMAIN thread_categories_
  \/ id \notin DOMAIN thread_categories_[category]

\* C7: RemoveThread for an identity or category that is absent raises no assertion and
\* leaves the category maps and both counters unchanged.
C7_RemoveAbsentIsNoOp ==
  [][\A c \in Callers :
       /\ (call[c].op = "none" /\ call'[c].op = "RemoveThread"
             /\ Absent(call'[c].id, call'[c].category))
            => (fatal' = "none" /\ UNCHANGED registry)
       /\ (call[c].op = "RemoveThread" /\ call[c].erased = 0 /\ call'[c].op = "none")
            => UNCHANGED registry]_vars

\* Positions of the child from holding thread_mgr_ref to leaving SuperviseThread.
HoldsHandle == {"c316", "c319", "c319s", "c323", "c329", "c330", "c331"}

\* C8: the ThreadMgr is alive whenever a child is between taking its handle and
\* returning, so every AddThread and RemoveThread of a child runs on a live ThreadMgr,
\* and the ThreadMgr is destroyed only when no handle is left.
C8_RegistryOutlivesThreads ==
  /\ \A t \in Threads : cpc[t] \in HoldsHandle => (thread_mgr_ref[t] = "valid" /\ mgr = "alive")
  /\ \A t \in Threads : call[t].op # "none" => mgr = "alive"
  /\ mgr = "destroyed" => use_count = 0

\* C9: an identity is in at most one category map, the one of its category_copy, and
\* only between its AddThread and its RemoveThread.
C9_OneCategoryWhileRegistered ==
  \A id \in Threads :
    /\ Cardinality(CategoriesOf(id)) <= 1
    /\ CategoriesOf(id) # {} =>
         (cpc[id] \in Registered /\ CategoriesOf(id) = {category_copy[id]})

\* C9 witness: two threads are registered at once, each in its own category.
C9_Witness ==
  \E a, b \in Threads :
    /\ CategoriesOf(a) = {"io"}
    /\ CategoriesOf(b) = {"no-category"}
    /\ cpc[a] \in Registered /\ cpc[b] \in Registered

StartFatal == {"Thread created before InitThreading called", "StartThread called twice"}

\* C10: while thread_manager is NULL or tid_ is already set, StartThread on that object
\* creates no native thread and begins no handshake, and a step that calls it ends in a
\* fatal assertion with the registry, the handshake words and tid_ unchanged.
C10_BadStartIsFatal ==
  [][\A t \in Threads :
       (thread_manager = "null" \/ tid_[t] # UNINITIALISED_THREAD_ID) =>
         /\ lpc'[t] = lpc[t]
         /\ cpc'[t] # "c300"
         /\ c_p_tid'[t] = c_p_tid[t] /\ p_c_assigned'[t] = p_c_assigned[t]
         /\ (fatal = "none" /\ fatal' \in StartFatal) =>
              UNCHANGED <<registry, lifetime, lock_, call, launcher, child>>]_vars

\* C10 witness: StartThread was called a second time on a started Thread and the
\* process aborted.
C10_Witness ==
  /\ fatal = "StartThread called twice"
  /\ \E t \in Threads : lpc[t] = "returned" /\ tid_[t] # UNINITIALISED_THREAD_ID

\* C11: the registry operations exclude each other under lock_: at most one caller is in
\* a critical section, a caller in one holds lock_ alone, and a metric callback in
\* progress holds the value the counter has, with no AddThread or RemoveThread half done.
C11_OneInCriticalSection ==
  /\ Cardinality(lock_) <= 1
  /\ \A c \in Callers : call[c].op # "none" => lock_ = {c}
  /\ \A c \in Callers :
       /\ call[c].op = "ReadNumTotalThreads" => call[c].result = total_threads_metric_
       /\ call[c].op = "ReadNumCurrentThreads" =>
            call[c].result = current_num_threads_metric_
       /\ call[c].op \in {"ReadNumTotalThreads", "ReadNumCurrentThreads",
                          "ThreadPathHandler"} =>
            \A d \in Callers : call[d].op \notin {"AddThread", "RemoveThread"}

\* C11 witness: a metric callback is inside its critical section after AddThread calls
\* have registered a thread.
C11_Witness ==
  \E c \in Callers :
    /\ call[c].op = "ReadNumCurrentThreads"
    /\ lock_ = {c}
    /\ NumRegistered > 0
    /\ calls_made >= 2

\* C12: a /threadz request whose group argument names no registered category (and is
\* not "all") gets the not-found message and returns: no GetThreadStats call, no table
\* row, and the category maps and counters stay as they were, the category not created.
C12_UnknownGroupNotFound ==
  [][\A c \in Callers :
       LET frame == call'[c]
       IN /\ (/\ frame.op = "ThreadPathHandler"
              /\ "group" \in DOMAIN frame.args
              /\ frame.args["group"] \notin (DOMAIN thread_categories_ \cup {"all"}))
               => /\ UNCHANGED registry
                  /\ frame.done
                  /\ frame.stats_calls = 0
                  /\ \E i \in 1..Len(frame.output) : frame.output[i][1] = "not found"
                  /\ \A i \in 1..Len(frame.output) : frame.output[i][1] # "tr"
          /\ (call[c].op = "ThreadPathHandler" /\ frame.op = "none") =>
               UNCHANGED registry]_vars

\* Number of table rows in the output of a /threadz request.
RowCount(frame) ==
  Cardinality({i \in 1..Len(frame.output) : frame.output[i][1] = "tr"})

\* C13: a finished /threadz request with group "all" has emitted one row per identity
\* in all category maps together, and one with group naming a registered category one
\* row per identity of that category, whether or not GetThreadStats failed for it.
C13_OneRowPerThread ==
  \A c \in Callers :
    LET frame == call[c]
    IN (frame.op = "ThreadPathHandler" /\ frame.done /\ "group" \in DOMAIN frame.args) =>
         /\ frame.args["group"] = "all" => RowCount(frame) = NumRegistered
         /\ frame.args["group"] \in DOMAIN thread_categories_ \ {"all"} =>
              RowCount(frame) = Cardinality(DOMAIN thread_categories_[frame.args["group"]])

\* C14: while metrics_enabled_ is false no step changes total_threads_metric_ or
\* current_num_threads_metric_ (AddThread and RemoveThread touch only the category
\* maps), and a step that changes a counter is the end of an AddThread or RemoveThread
\* running with metrics enabled.
C14_CountersOnlyWhenEnabled ==
  [][/\ ~metrics_enabled_ =>
          UNCHANGED <<total_threads_metric_, current_num_threads_metric_>>
     /\ <<total_threads_metric_, current_num_threads_metric_>>'
          # <<total_threads_metric_, current_num_threads_metric_>> =>
            /\ metrics_enabled_
            /\ UNCHANGED thread_categories_
            /\ \E c \in Callers :
                 call[c].op \in {"AddThread", "RemoveThread"} /\ call'[c].op = "none"]_vars

\* C14 witness: with metrics disabled an AddThread has completed and a RemoveThread has
\* erased the descriptor and is about to return.
C14_Witness ==
  \E c \in Callers :
    call[c].op = "RemoveThread" /\ call[c].erased = 1 /\ ~metrics_enabled_

\* C15: p_c_assigned only moves THREAD_NOT_ASSIGNED -> THREAD_ASSIGNED -> THREAD_RUNNING:
\* the launcher's store at line 286 takes it from NOT_ASSIGNED to ASSIGNED, the child's
\* store in SpinWait, made after it loaded ASSIGNED, takes it from ASSIGNED to RUNNING,
\* and no other step changes it.
C15_AssignedMovesForward ==
  [][\A t \in Threads :
       p_c_assigned'[t] # p_c_assigned[t] =>
         \/ /\ p_c_assigned[t] = THREAD_NOT_ASSIGNED
            /\ p_c_assigned'[t] = THREAD_ASSIGNED
            /\ lpc[t] = "L286" /\ lpc'[t] = "L290"
            /\ cpc'[t] = cpc[t]
         \/ /\ p_c_assigned[t] = THREAD_ASSIGNED
            /\ p_c_assigned'[t] = THREAD_RUNNING
            /\ cpc[t] = "c319s" /\ cpc'[t] = "c323"
            /\ lpc'[t] = lpc[t]]_vars

\* C15 witness: the word has gone through both stores and StartThread has returned.
C15_Witness ==
  \E t \in Threads : p_c_assigned[t] = THREAD_RUNNING /\ lpc[t] = "returned"

\* C16: the steps of a start happen in the order handle stored in thread_, then
\* THREAD_ASSIGNED published, then THREAD_RUNNING set by the child, then the tid
\* reported in c_p_tid, then functor() invoked: each has happened only if the one
\* before it has.
C16_HandshakeOrder ==
  \A t \in Threads :
    /\ p_c_assigned[t] # THREAD_NOT_ASSIGNED => (thread_[t] /\ lpc[t] \in {"L290", "returned"})
    /\ p_c_assigned[t] = THREAD_RUNNING => cpc[t] \notin {"c300", "c316", "c319", "c319s"}
    /\ cpc[t] \in {"c323", "c329"} \cup AfterFunctor => p_c_assigned[t] = THREAD_RUNNING
    /\ c_p_tid[t] # UNINITIALISED_THREAD_ID =>
         (p_c_assigned[t] = THREAD_RUNNING /\ cpc[t] \in {"c329"} \cup AfterFunctor)
    /\ cpc[t] \in AfterFunctor => c_p_tid[t] # UNINITIALISED_THREAD_ID

\* C16 witness: functor() has been invoked while the launcher has not yet read the
\* reported tid.
C16_Witness ==
  \E t \in Threads :
    /\ cpc[t] \in AfterFunctor
    /\ lpc[t] = "L290"
    /\ thread_[t] /\ p_c_assigned[t] = THREAD_RUNNING
    /\ c_p_tid[t] # UNINITIALISED_THREAD_ID

\* C17 as claimed: while a thread's p_c_assigned is THREAD_NOT_ASSIGNED its child is in
\* no registry call and its descriptor is in no category map.
C17_NoRegistryBeforeAssigned ==
  \A t \in Threads :
    p_c_assigned[t] = THREAD_NOT_ASSIGNED => (call[t].op = "none" /\ CategoriesOf(t) = {})

\* C17 amended: while a thread's p_c_assigned is THREAD_NOT_ASSIGNED its child has done
\* nothing beyond its AddThread: it has not left SpinWait, reported its tid, invoked
\* functor() or called RemoveThread.
C17_OnlyAddBeforeAssigned ==
  \A t \in Threads :
    p_c_assigned[t] = THREAD_NOT_ASSIGNED =>
      /\ cpc[t] \in {"none", "c300", "c316", "c319"}
      /\ call[t].op \in {"none", "AddThread"}
      /\ c_p_tid[t] = UNINITIALISED_THREAD_ID

\* C17 witness: the child has completed AddThread and spins in SpinWait, its descriptor
\* registered, while the launcher has not yet published THREAD_ASSIGNED.
C17_Witness ==
  \E t \in Threads :
    /\ p_c_assigned[t] = THREAD_NOT_ASSIGNED
    /\ cpc[t] = "c319" /\ call[t].op = "none"
    /\ CategoriesOf(t) = {category_copy[t]}

\* C18: the RemoveThread call at the end of SuperviseThread names the child's own
\* identity and its category_copy, the category its descriptor was registered under;
\* that category is in thread_categories_ and holds the identity when the call is
\* made, the DCHECK of RemoveThread never fails, and the category stays in
\* thread_categories_ after the thread has gone.
C18_RemoveFindsDescriptor ==
  /\ fatal # "DCHECK(category_it != thread_categories_.end())"
  /\ \A t \in Threads :
       /\ cpc[t] \in Registered \ {"c319"} =>
            /\ category_copy[t] \in DOMAIN thread_categories_
            /\ t \in DOMAIN thread_categories_[category_copy[t]]
            /\ thread_categories_[category_copy[t]][t].category = category_copy[t]
       /\ call[t].op = "RemoveThread" =>
            /\ call[t].id = t
            /\ call[t].category = category_copy[t]
            /\ call[t].erased = 1
       /\ cpc[t] \in {"c331", "done"} => category_copy[t] \in DOMAIN thread_categories_

\* C18 witness: a child whose category was defaulted is in RemoveThread and has erased
\* its descriptor while another thread is still registered.
C18_Witness ==
  \E t, u \in Threads :
    /\ call[t].op = "RemoveThread" /\ call[t].erased = 1
    /\ category_copy[t] = "no-category"
    /\ u # t /\ CategoriesOf(u) # {}

\* C19: when c_p_tid is set, so that the launcher can leave its wait, and ever after
\* StartThread has returned, the child has made its copies of name and category, has
\* taken thread_mgr_ref and has completed AddThread: its descriptor is in the map of its
\* category, or it has already called RemoveThread and is in no map.
C19_ReportedAfterRegistered ==
  \A t \in Threads :
    /\ lpc[t] = "returned" => c_p_tid[t] # UNINITIALISED_THREAD_ID
    /\ c_p_tid[t] # UNINITIALISED_THREAD_ID =>
         /\ category_copy[t] # "" /\ name_copy[t][1] # ""
         /\ thread_mgr_ref[t] = "valid" \/ cpc[t] = "done"
         /\ call[t].op # "AddThread"
         /\ \/ cpc[t] \in {"c329", "c330"} /\ CategoriesOf(t) = {category_copy[t]}
            \/ cpc[t] \in {"c331", "done"} /\ CategoriesOf(t) = {}

\* C19 witness: the launcher is about to read a c_p_tid the child has set, and the
\* child is still registered.
C19_Witness ==
  \E t \in Threads :
    /\ lpc[t] = "L290" /\ c_p_tid[t] # UNINITIALISED_THREAD_ID
    /\ cpc[t] = "c329" /\ CategoriesOf(t) = {category_copy[t]}

\* C20: no RemoveThread decrements current_num_threads_metric_ while it is 0, whatever
\* the order of StartInstrumentation and the threads' AddThread and RemoveThread calls.
C20_AliveNeverWraps ==
  [][\A c \in Callers :
       (call[c].op = "RemoveThread" /\ call'[c].op = "none" /\ metrics_enabled_) =>
         /\ current_num_threads_metric_ # 0
         /\ current_num_threads_metric_' = current_num_threads_metric_ - 1]_vars

====
